---- MODULE Spec2Model ----
(***************************************************************************)
(* Batch ray-sphere intersection of pathtrace-rs (src/src/collision.rs):   *)
(* the structure-of-arrays sphere store SpheresSoA, its constructor, and   *)
(* the two intersection kernels hit_scalar and hit_sse4_1.                 *)
(*                                                                         *)
(* f32 is modelled by a binary floating-point format with the structure of *)
(* IEEE-754 binary32 (round to nearest, ties to even; gradual underflow;   *)
(* overflow to infinity; NaN) and a reduced width: MantBits significand    *)
(* bits and exponent bias ExpBias instead of 24 and 127.  A finite value   *)
(* is the integer count of the smallest subnormal it holds, so 1.0 is One. *)
(* The sign of zero is not modelled.                                       *)
(***************************************************************************)
EXTENDS Integers, Sequences, FiniteSets, TLC

\* ------------------------------------------------------------------ f32

MantBits == 4

ExpBias == 7

TwoP == 2^MantBits

KMax == 2 * ExpBias - 1

FracBits == ExpBias + MantBits - 2

One == 2^FracBits

F32_MAX == (TwoP - 1) * 2^KMax

PosInf == F32_MAX + 1

NegInf == -PosInf

NaN == F32_MAX + 2

IsNaN(a) == a = NaN

IsInf(a) == a = PosInf \/ a = NegInf

IsFin(a) == ~IsNaN(a) /\ ~IsInf(a)

Abs(a) == IF a < 0 THEN -a ELSE a

RECURSIVE BitLen(_)
BitLen(q) == IF q = 0 THEN 0 ELSE 1 + BitLen(q \div 2)

\* The exponent (in units of the smallest subnormal) of the binade of a
\* value of len bits, and of q.
ExpOf(len) == IF len > MantBits THEN len - MantBits ELSE 0

Exp2(q) == ExpOf(BitLen(q))

\* m * 2^k, overflowing to +infinity past the largest binade.
RoundM(m, k) == IF k = KMax /\ m >= TwoP THEN PosInf ELSE m * 2^k

\* q + r/D to the nearest integer, ties to even, times 2^k.
RoundR(q, r, D, k) ==
    RoundM(IF (r > D - r) \/ (r = D - r /\ q % 2 = 1) THEN q + 1 ELSE q, k)

RoundK(n, d, k) ==
    IF k > KMax THEN PosInf ELSE RoundR(n \div (d * 2^k), n % (d * 2^k), d * 2^k, k)

\* n/d >= 0 rounded to the nearest representable value, ties to even,
\* overflowing to +infinity.
RoundQ(n, d) == RoundK(n, d, Exp2(n \div d))

\* A decimal literal n/d of the source, as rustc rounds it to f32.
Lit(n, d) == IF n < 0 THEN -RoundQ((-n) * One, d) ELSE RoundQ(n * One, d)

\* The finite magnitudes the format holds.
FinMags == {m * 2^k : m \in 0..(TwoP - 1), k \in 0..KMax}

\* mm * 2^e rounded, for a product mm of two significands.
MulScaled(mm, e) ==
    IF mm = 0 THEN 0
    ELSE IF e > KMax + MantBits THEN PosInf
    ELSE IF e >= 0 THEN RoundQ(mm * 2^e, 1)
    ELSE RoundQ(mm, 2^(-e))

MulExp(x, y, kx, ky) == MulScaled((x \div 2^kx) * (y \div 2^ky), kx + ky - FracBits)

\* |a| * |b| for finite a and b.
MulMag(x, y) == MulExp(x, y, Exp2(x), Exp2(y))

RECURSIVE ISqrtIter(_, _)
ISqrtIter(n, x) ==
    IF (x + n \div x) \div 2 >= x THEN x ELSE ISqrtIter(n, (x + n \div x) \div 2)

\* floor(sqrt(n))
ISqrt(n) == IF n = 0 THEN 0 ELSE ISqrtIter(n, 2^((BitLen(n) + 1) \div 2))

\* sqrt(n) for floor(sqrt(n)) = q in the binade of exponent k, rounded to a
\* multiple of 2^k, ties to even.
SqrtK(n, q, k) ==
    IF k = 0
    THEN (IF n > q * q + q THEN q + 1 ELSE q)
    ELSE IF \/ n > ((q \div 2^k) * 2^k + 2^(k - 1)) * ((q \div 2^k) * 2^k + 2^(k - 1))
            \/ /\ n = ((q \div 2^k) * 2^k + 2^(k - 1)) * ((q \div 2^k) * 2^k + 2^(k - 1))
               /\ (q \div 2^k) % 2 = 1
         THEN (q \div 2^k) * 2^k + 2^k
         ELSE (q \div 2^k) * 2^k

SqrtQ(n, q) == SqrtK(n, q, Exp2(q))

\* The square root of a finite a >= 0, correctly rounded.
SqrtMag(a) == SqrtQ(a * One, ISqrt(a * One))

\* The rounded results over the finite magnitudes, computed once.
AddMagTab == [x \in FinMags |-> [y \in FinMags |-> RoundQ(x + y, 1)]]

SubMagTab == [x \in FinMags |-> [y \in FinMags |-> IF x >= y THEN RoundQ(x - y, 1) ELSE 0]]

MulMagTab == [x \in FinMags |-> [y \in FinMags |-> MulMag(x, y)]]

SqrtMagTab == [x \in FinMags |-> SqrtMag(x)]

FNeg(a) == IF IsNaN(a) THEN NaN ELSE -a

\* mag with the sign of s.
Signed(s, mag) == IF s < 0 THEN -mag ELSE mag

\* a + b for finite a and b.
FAddFin(a, b) ==
    IF (a >= 0) = (b >= 0)
    THEN Signed(a, AddMagTab[Abs(a)][Abs(b)])
    ELSE Signed(IF Abs(a) >= Abs(b) THEN a ELSE b,
                SubMagTab[IF Abs(a) >= Abs(b) THEN Abs(a) ELSE Abs(b)]
                         [IF Abs(a) >= Abs(b) THEN Abs(b) ELSE Abs(a)])

FAddDef(a, b) ==
    IF IsNaN(a) \/ IsNaN(b) THEN NaN
    ELSE IF IsInf(a) THEN (IF IsInf(b) /\ a # b THEN NaN ELSE a)
    ELSE IF IsInf(b) THEN b
    ELSE FAddFin(a, b)

\* mag, negated when neg.
Negated(neg, mag) == IF neg THEN -mag ELSE mag

FMulDef(a, b) ==
    IF IsNaN(a) \/ IsNaN(b) THEN NaN
    ELSE IF (IsInf(a) /\ b = 0) \/ (IsInf(b) /\ a = 0) THEN NaN
    ELSE Negated((a < 0) # (b < 0),
                 IF IsInf(a) \/ IsInf(b) THEN PosInf ELSE MulMagTab[Abs(a)][Abs(b)])

FDiv(a, b) ==
    IF IsNaN(a) \/ IsNaN(b) THEN NaN
    ELSE IF (IsInf(a) /\ IsInf(b)) \/ (a = 0 /\ b = 0) THEN NaN
    ELSE Negated((a < 0) # (b < 0),
                 IF IsInf(a) \/ b = 0 THEN PosInf
                 ELSE IF IsInf(b) THEN 0
                 ELSE RoundQ(Abs(a) * One, Abs(b)))

\* f32::sqrt and _mm_sqrt_ps.
FSqrtDef(a) ==
    IF IsNaN(a) \/ a < 0 THEN NaN
    ELSE IF a = PosInf THEN PosInf
    ELSE SqrtMagTab[a]

\* Every value of the format.
F32 == {a : a \in FinMags} \cup {-a : a \in FinMags} \cup {PosInf, NegInf, NaN}

\* The operations over every pair of values, computed once.
FAddTab == [a \in F32 |-> [b \in F32 |-> FAddDef(a, b)]]

FMulTab == [a \in F32 |-> [b \in F32 |-> FMulDef(a, b)]]

FSqrtTab == [a \in F32 |-> FSqrtDef(a)]

FAdd(a, b) == FAddTab[a][b]

FSub(a, b) == FAddTab[a][FNeg(b)]

FMul(a, b) == FMulTab[a][b]

FSqrt(a) == FSqrtTab[a]

\* The ordered comparisons of f32 (and of _mm_cmpgt_ps, _mm_cmplt_ps,
\* _mm_cmpeq_ps): false when either side is NaN.
FGt(a, b) == ~IsNaN(a) /\ ~IsNaN(b) /\ a > b

FLt(a, b) == ~IsNaN(a) /\ ~IsNaN(b) /\ a < b

FEq(a, b) == ~IsNaN(a) /\ ~IsNaN(b) /\ a = b

\* ---------------------------------------------------------------- Vec3

vec3(x, y, z) == <<x, y, z>>

VSub(a, b) == <<FSub(a[1], b[1]), FSub(a[2], b[2]), FSub(a[3], b[3])>>

VAdd(a, b) == <<FAdd(a[1], b[1]), FAdd(a[2], b[2]), FAdd(a[3], b[3])>>

\* f32 * Vec3 and Vec3 * f32
VScale(a, k) == <<FMul(a[1], k), FMul(a[2], k), FMul(a[3], k)>>

Dot(a, b) == FAdd(FAdd(FMul(a[1], b[1]), FMul(a[2], b[2])), FMul(a[3], b[3]))

\* Ray::point_at_parameter
point_at_parameter(r, t) == VAdd(r.origin, VScale(r.direction, t))

\* ---------------------------------------------------------- SpheresSoA

chunk_size == 4

NUM_LANES == 4

Lanes == 1..NUM_LANES

\* math::align_to: value rounded up to the next multiple of alignment.
align_to(value, alignment) == ((value + alignment - 1) \div alignment) * alignment

\* SphereRow with the radius pushed where its square belongs.
SphereRowUnsquared(sphere) ==
    [centre_x |-> sphere.centre[1],
     centre_y |-> sphere.centre[2],
     centre_z |-> sphere.centre[3],
     radius_sq |-> sphere.radius,
     radius_inv |-> FDiv(One, sphere.radius)]

\* The row SpheresSoA::new pushes for one input sphere.
SphereRow(sphere) ==
    [centre_x |-> sphere.centre[1],
     centre_y |-> sphere.centre[2],
     centre_z |-> sphere.centre[3],
     radius_sq |-> FMul(sphere.radius, sphere.radius),
     radius_inv |-> FDiv(One, sphere.radius)]

\* PaddingRow with the zero-radius sentinel placed at the world origin.
PaddingRowAtOrigin ==
    [centre_x |-> 0, centre_y |-> 0, centre_z |-> 0, radius_sq |-> 0, radius_inv |-> 0]

\* The row SpheresSoA::new pushes for each padding entry.
PaddingRow ==
    [centre_x |-> F32_MAX,
     centre_y |-> F32_MAX,
     centre_z |-> F32_MAX,
     radius_sq |-> 0,
     radius_inv |-> 0]

\* NewRows without the padding rows.
NewRowsUnpadded(sphs) == [i \in 1..Len(sphs) |-> SphereRow(sphs[i])]

\* SpheresSoA::new: the rows pushed, in order.
NewRows(sphs) ==
    LET num == Len(sphs)
        len == align_to(num, chunk_size)
        padding == len - num
    IN  [i \in 1..num |-> SphereRow(sphs[i])] \o [i \in 1..padding |-> PaddingRow]

SoA(sphs) ==
    LET rows == NewRows(sphs)
    IN  [centre_x |-> [i \in 1..Len(rows) |-> rows[i].centre_x],
         centre_y |-> [i \in 1..Len(rows) |-> rows[i].centre_y],
         centre_z |-> [i \in 1..Len(rows) |-> rows[i].centre_z],
         radius_sq |-> [i \in 1..Len(rows) |-> rows[i].radius_sq],
         radius_inv |-> [i \in 1..Len(rows) |-> rows[i].radius_inv],
         len |-> align_to(Len(sphs), chunk_size),
         num_spheres |-> Len(sphs)]

NoStore ==
    [centre_x |-> <<>>, centre_y |-> <<>>, centre_z |-> <<>>,
     radius_sq |-> <<>>, radius_inv |-> <<>>, len |-> 0, num_spheres |-> 0]

\* ------------------------------------------------------------- inputs

MaxSpheres == 5

\* Input spheres: one in front of the origin, one around it, one of radius 0.
SphereA == [centre |-> vec3(0, 0, Lit(-1, 1)), radius |-> Lit(1, 2)]

SphereB == [centre |-> vec3(0, 0, 0), radius |-> One]

SphereD == [centre |-> vec3(0, 0, Lit(-1, 1)), radius |-> 0]

SphereChoices == {SphereA, SphereB, SphereD}

SphereLists == UNION {[1..n -> SphereChoices] : n \in 0..MaxSpheres}

\* The rays queried: from the origin (inside SphereB, in front of SphereA)
\* down -z (unit and not), along +y and with a zero direction; from
\* (0,0,1) on SphereB down -z (unit and not) and along +y (tangent to
\* SphereB); from a point level with the padding rows down -z and along
\* the diagonal.
Rays ==
    {[origin |-> vec3(0, 0, 0), direction |-> vec3(0, 0, Lit(-1, 1))],
     [origin |-> vec3(0, 0, 0), direction |-> vec3(0, 0, Lit(-2, 1))],
     [origin |-> vec3(0, 0, 0), direction |-> vec3(0, One, 0)],
     [origin |-> vec3(0, 0, 0), direction |-> vec3(0, 0, 0)],
     [origin |-> vec3(0, 0, One), direction |-> vec3(0, 0, Lit(-1, 1))],
     [origin |-> vec3(0, 0, One), direction |-> vec3(0, 0, Lit(-2, 1))],
     [origin |-> vec3(0, 0, One), direction |-> vec3(0, One, 0)],
     [origin |-> vec3(Lit(224, 1), F32_MAX, F32_MAX), direction |-> vec3(0, 0, Lit(-1, 1))],
     [origin |-> vec3(Lit(224, 1), F32_MAX, F32_MAX), direction |-> vec3(One, One, One)]}

TMins == {Lit(1, 1000), Lit(1, 2)}

TMaxs == {F32_MAX, Lit(1, 2)}

\* What a read outside an allocation may return.
Garbage == {0, NaN}

\* -------------------------------------------------------------- state

VARIABLES
    pc,           \* "start", "idle", "scalar", "sse", "done"
    spheres,      \* the slice given to SpheresSoA::new
    store,        \* the SpheresSoA
    ray, t_min, t_max,                \* the arguments of the query in progress
    s_index, s_hit_t, s_hit_index,    \* hit_scalar: loop position, hit_t, hit_index
    v_index, v_hit_t, v_hit_index,    \* hit_sse4_1: index, hit_t, hit_index (4 lanes)
    v_oob,        \* hit_sse4_1 read outside the arrays
    res_scalar,   \* what hit_scalar returned
    res_sse       \* what hit_sse4_1 returned

\* Concurrent queries on one shared store: per query, its position, its
\* arguments, the locals of its kernel and what it returned.
VARIABLES q_pc, q_args, q_local, q_res

\* Scene::ray_to_colour: position, the depth argument of the innermost
\* invocation, the invocations on the stack, the invocations made.
VARIABLES rt_pc, rt_depth, rt_frames, rt_calls

\* main and its render worker: positions, main's rgb_buffer, the worker's
\* rgb_buffer, the two channels (named by their receiving ends), the
\* worker's frame_num, the buffers the worker has sent back, main's quit.
VARIABLES m_pc, m_rgb_buffer, w_pc, w_rgb_buffer, worker_recv, main_recv,
          frame_num, sent_back, quit

seq_vars ==
    <<pc, ray, t_min, t_max, s_index, s_hit_t, s_hit_index,
      v_index, v_hit_t, v_hit_index, v_oob, res_scalar, res_sse>>

conc_vars == <<q_pc, q_args, q_local, q_res>>

bounce_vars == <<rt_pc, rt_depth, rt_frames, rt_calls>>

frame_vars ==
    <<m_pc, m_rgb_buffer, w_pc, w_rgb_buffer, worker_recv, main_recv,
      frame_num, sent_back, quit>>

vars == <<spheres, store, seq_vars, conc_vars, bounce_vars, frame_vars>>

Zero3 == vec3(0, 0, 0)

NoRay == [origin |-> Zero3, direction |-> Zero3]

\* Option::None, and Some((RayHit { point, normal }, index)); t is the
\* parameter the point was computed from.
None == [hit |-> FALSE, t |-> 0, point |-> Zero3, normal |-> Zero3, index |-> 0]

Some(t, point, normal, index) ==
    [hit |-> TRUE, t |-> t, point |-> point, normal |-> normal, index |-> index]

Splat(x) == [l \in Lanes |-> x]

\* The identifiers of the concurrent queries.
Queries == {"q1", "q2"}

\* No call: no arguments, no locals allocated, nothing returned.
NoArgs == [kernel |-> "none"]

NoLocal == [s |-> <<>>, v |-> <<>>]

NoResult == [pending |-> TRUE]

\* The one frame buffer main allocates.
Buffer == "rgb_buffer"

\* No query is running.
ConcInit ==
    /\ q_pc = [q \in Queries |-> "idle"]
    /\ q_args = [q \in Queries |-> NoArgs]
    /\ q_local = [q \in Queries |-> NoLocal]
    /\ q_res = [q \in Queries |-> NoResult]

\* ray_to_colour is not running.
BounceInit ==
    /\ rt_pc = "idle"
    /\ rt_depth = 0
    /\ rt_frames = 0
    /\ rt_calls = 0

\* main holds Some(buffer), both channels are empty, the worker is spawned.
FrameInit ==
    /\ m_pc = "poll"
    /\ m_rgb_buffer = <<Buffer>>
    /\ w_pc = "recv"
    /\ w_rgb_buffer = <<>>
    /\ worker_recv = <<>>
    /\ main_recv = <<>>
    /\ frame_num = 0
    /\ sent_back = 0
    /\ quit = FALSE

Init ==
    /\ pc = "start"
    /\ spheres = <<>>
    /\ store = NoStore
    /\ ray = NoRay
    /\ t_min = 0
    /\ t_max = 0
    /\ s_index = 0
    /\ s_hit_t = 0
    /\ s_hit_index = 0
    /\ v_index = Splat(0)
    /\ v_hit_t = Splat(0)
    /\ v_hit_index = Splat(0)
    /\ v_oob = FALSE
    /\ res_scalar = None
    /\ res_sse = None
    /\ ConcInit
    /\ BounceInit
    /\ FrameInit

kernel_vars == <<s_index, s_hit_t, s_hit_index, v_index, v_hit_t, v_hit_index, v_oob>>

\* SpheresSoA::new(spheres)
New ==
    /\ pc = "start"
    /\ \E sphs \in SphereLists :
          /\ spheres' = sphs
          /\ store' = SoA(sphs)
    /\ pc' = "idle"
    /\ UNCHANGED <<ray, t_min, t_max, kernel_vars, res_scalar, res_sse>>
    /\ UNCHANGED <<conc_vars, bounce_vars, frame_vars>>

\* A query hit(ray, t_min, t_max) enters; both kernels are run on it, the
\* scalar one first.  The entry of each kernel sets its running best.
Hit ==
    /\ pc = "idle"
    /\ \E r \in Rays, tmin \in TMins, tmax \in TMaxs :
          /\ ray' = r
          /\ t_min' = tmin
          /\ t_max' = tmax
          /\ s_hit_t' = tmax
          /\ v_hit_t' = Splat(tmax)
    /\ s_hit_index' = store.len
    /\ s_index' = 0
    /\ v_hit_index' = Splat(-1)
    /\ v_index' = [l \in Lanes |-> l - 1]
    /\ v_oob' = FALSE
    /\ pc' = "scalar"
    /\ UNCHANGED <<spheres, store, res_scalar, res_sse>>
    /\ UNCHANGED <<conc_vars, bounce_vars, frame_vars>>

\* --------------------------------------------------------- hit_scalar

\* The loop body's quadratic terms for the sphere at index i (from 0).
SphereMath(st, i, r) ==
    LET co == VSub(vec3(st.centre_x[i + 1], st.centre_y[i + 1], st.centre_z[i + 1]),
                   r.origin)
        nb == Dot(co, r.direction)
        c == FSub(Dot(co, co), st.radius_sq[i + 1])
    IN  [nb |-> nb, discriminant |-> FSub(FMul(nb, nb), c)]

\* ScalarRoot taking the farther root always.
ScalarRootFar(nb, discriminant, tmin) == FAdd(nb, FSqrt(discriminant))

\* let mut t = nb - discriminant_sqrt; if t < t_min { t = nb + discriminant_sqrt }
ScalarRoot(nb, discriminant, tmin) ==
    LET discriminant_sqrt == FSqrt(discriminant)
        t == FSub(nb, discriminant_sqrt)
    IN  IF FLt(t, tmin) THEN FAdd(nb, discriminant_sqrt) ELSE t

\* ScalarAccepts without the comparison against the running best.
ScalarAcceptsNoBest(t, tmin, hit_t) == FGt(t, tmin)

\* ScalarAccepts with t <= hit_t for t < hit_t.
ScalarAcceptsLe(t, tmin, hit_t) == FGt(t, tmin) /\ (FLt(t, hit_t) \/ FEq(t, hit_t))

\* if t > t_min && t < hit_t
ScalarAccepts(t, tmin, hit_t) == FGt(t, tmin) /\ FLt(t, hit_t)

\* The number of items of the zipped iterators over the four arrays.
ZipLen(st) ==
    LET lens == {Len(st.centre_x), Len(st.centre_y), Len(st.centre_z), Len(st.radius_sq)}
    IN  CHOOSE n \in lens : \A k \in lens : n <= k

\* DiscriminantPositive taking a zero discriminant too.
DiscriminantNotNegative(discriminant) == FGt(discriminant, 0) \/ FEq(discriminant, 0)

\* if discriminant > 0.0
DiscriminantPositive(discriminant) == FGt(discriminant, 0)

\* if t > t_min && t < hit_t { hit_t = t; hit_index = index }, under the
\* test of the discriminant: the running best after the sphere at index.
ScalarTake(pos, t, tmin, index, hit_t, hit_index) ==
    [hit_t |-> IF pos /\ ScalarAccepts(t, tmin, hit_t) THEN t ELSE hit_t,
     hit_index |-> IF pos /\ ScalarAccepts(t, tmin, hit_t) THEN index ELSE hit_index]

\* The candidate root of the quadratic terms m, offered to the running best.
ScalarSelect(m, tmin, index, hit_t, hit_index) ==
    ScalarTake(DiscriminantPositive(m.discriminant),
               ScalarRoot(m.nb, m.discriminant, tmin), tmin, index, hit_t, hit_index)

\* The body of the loop of hit_scalar for the sphere at index: the running
\* best after it.
ScalarBody(st, r, tmin, index, hit_t, hit_index) ==
    ScalarSelect(SphereMath(st, index, r), tmin, index, hit_t, hit_index)

\* One iteration of the loop of hit_scalar.
ScalarStep ==
    /\ pc = "scalar"
    /\ s_index < ZipLen(store)
    /\ LET best == ScalarBody(store, ray, t_min, s_index, s_hit_t, s_hit_index)
       IN  /\ s_hit_t' = best.hit_t
           /\ s_hit_index' = best.hit_index
    /\ s_index' = s_index + 1
    /\ UNCHANGED <<pc, spheres, store, ray, t_min, t_max, v_index, v_hit_t,
                   v_hit_index, v_oob, res_scalar, res_sse>>
    /\ UNCHANGED <<conc_vars, bounce_vars, frame_vars>>

\* What hit_scalar returns after the loop.
ScalarResult(st, r, hit_t, hit_index) ==
    IF hit_index < st.len
    THEN LET point == point_at_parameter(r, hit_t)
             normal == VScale(VSub(point, vec3(st.centre_x[hit_index + 1],
                                               st.centre_y[hit_index + 1],
                                               st.centre_z[hit_index + 1])),
                              st.radius_inv[hit_index + 1])
         IN  Some(hit_t, point, normal, hit_index)
    ELSE None

\* The loop of hit_scalar is over; it returns, and hit_sse4_1 starts.
ScalarReturn ==
    /\ pc = "scalar"
    /\ s_index >= ZipLen(store)
    /\ res_scalar' = ScalarResult(store, ray, s_hit_t, s_hit_index)
    /\ pc' = "sse"
    /\ UNCHANGED <<spheres, store, ray, t_min, t_max, kernel_vars, res_sse>>
    /\ UNCHANGED <<conc_vars, bounce_vars, frame_vars>>

\* --------------------------------------------------------- hit_sse4_1

\* simd::dot3_sse2, one lane.
dot3_sse2(x0, x1, y0, y1, z0, z1) ==
    FAdd(FAdd(FMul(x0, x1), FMul(y0, y1)), FMul(z0, z1))

\* _mm_min_ps, one lane: the second operand unless the first is less.
FMin(a, b) == IF FLt(a, b) THEN a ELSE b

\* simd::hmin_sse2: the minimum of the four lanes.
hmin_sse2(v) == FMin(FMin(v[1], v[3]), FMin(v[2], v[4]))

\* One lane of the loop body's quadratic terms.
SseLaneMath(c_x, c_y, c_z, r_sq, r) ==
    LET co_x == FSub(c_x, r.origin[1])
        co_y == FSub(c_y, r.origin[2])
        co_z == FSub(c_z, r.origin[3])
        nb == dot3_sse2(co_x, r.direction[1], co_y, r.direction[2], co_z, r.direction[3])
        c == FSub(dot3_sse2(co_x, co_x, co_y, co_y, co_z, co_z), r_sq)
    IN  [nb |-> nb, discr |-> FSub(FMul(nb, nb), c)]

\* let t = _mm_blendv_ps(t1, t0, _mm_cmpgt_ps(t0, t_min)), one lane.
SseRoot(nb, discr, tmin) ==
    LET discr_sqrt == FSqrt(discr)
        t0 == FSub(nb, discr_sqrt)
        t1 == FAdd(nb, discr_sqrt)
    IN  IF FGt(t0, tmin) THEN t0 ELSE t1

\* mask = pos_discr & (t > t_min) & (t < hit_t), one lane.
SseMask(pos_discr, t, tmin, hit_t) == pos_discr /\ FGt(t, tmin) /\ FLt(t, hit_t)

\* The number of chunks of NUM_LANES the zipped chunk iterators yield.
NumChunks(st) == (ZipLen(st) + NUM_LANES - 1) \div NUM_LANES

\* _mm_loadu_ps of the chunk that starts at index base: lane l reads
\* arr[base + l - 1], or g when that is outside arr.
Loadu(arr, base, l, g) == IF base + l <= Len(arr) THEN arr[base + l] ELSE g

\* SseMask with t <= hit_t for t < hit_t.
SseMaskLe(pos_discr, t, tmin, hit_t) ==
    pos_discr /\ FGt(t, tmin) /\ (FLt(t, hit_t) \/ FEq(t, hit_t))

\* let pos_discr = _mm_cmpgt_ps(discr, _mm_set1_ps(0.0)), one lane.
SsePosDiscr(discr) == FGt(discr, 0)

\* One lane's pos_discr, t and mask.
SseLaneMasked(pos_discr, t, tmin, hit_t) ==
    [pos_discr |-> pos_discr, t |-> t, mask |-> SseMask(pos_discr, t, tmin, hit_t)]

SseLaneSelect(m, tmin, hit_t) ==
    SseLaneMasked(SsePosDiscr(m.discr), SseRoot(m.nb, m.discr, tmin), tmin, hit_t)

\* Lane l of the chunk that starts at index base; a read outside the arrays
\* yields g.
SseLane(st, r, tmin, base, l, hit_t, g) ==
    SseLaneSelect(SseLaneMath(Loadu(st.centre_x, base, l, g),
                              Loadu(st.centre_y, base, l, g),
                              Loadu(st.centre_z, base, l, g),
                              Loadu(st.radius_sq, base, l, g), r),
                  tmin, hit_t)

\* if _mm_movemask_ps(pos_discr) != 0 { ... hit_index = blendv(hit_index,
\* index, mask); hit_t = blendv(hit_t, t, mask) }
SseBlend(index, hit_t, hit_index, lanes) ==
    [hit_index |->
        [l \in Lanes |-> IF (\E k \in Lanes : lanes[k].pos_discr) /\ lanes[l].mask
                         THEN index[l] ELSE hit_index[l]],
     hit_t |->
        [l \in Lanes |-> IF (\E k \in Lanes : lanes[k].pos_discr) /\ lanes[l].mask
                         THEN lanes[l].t ELSE hit_t[l]]]

\* The body of the loop of hit_sse4_1 for the chunk whose first lane is at
\* index[1]: the running best of every lane after it.
SseBody(st, r, tmin, index, hit_t, hit_index, g) ==
    SseBlend(index, hit_t, hit_index,
             [l \in Lanes |-> SseLane(st, r, tmin, index[1], l, hit_t[l], g)])

\* One iteration of the loop of hit_sse4_1: four spheres.
SseStep ==
    /\ pc = "sse"
    /\ v_index[1] < NumChunks(store) * NUM_LANES
    /\ \E g \in (IF v_index[1] + NUM_LANES <= ZipLen(store) THEN {0} ELSE Garbage) :
          LET best == SseBody(store, ray, t_min, v_index, v_hit_t, v_hit_index, g)
          IN  /\ v_hit_index' = best.hit_index
              /\ v_hit_t' = best.hit_t
    /\ v_oob' = (v_oob \/ v_index[1] + NUM_LANES > ZipLen(store))
    /\ v_index' = [l \in Lanes |-> v_index[l] + NUM_LANES]
    /\ UNCHANGED <<pc, spheres, store, ray, t_min, t_max, s_index, s_hit_t,
                   s_hit_index, res_scalar, res_sse>>
    /\ UNCHANGED <<conc_vars, bounce_vars, frame_vars>>

\* intrinsics::cttz of the lane mask: the lowest lane set.
cttz(min_mask) == CHOOSE l \in min_mask : \A k \in min_mask : l <= k

\* get_unchecked(index): the element, or g when index is outside arr.
GetUnchecked(arr, index, g) ==
    IF index >= 0 /\ index < Len(arr) THEN arr[index + 1] ELSE g

\* What hit_sse4_1 returns after the loop.
SseResult(st, r, tmax, hit_t, hit_index, g) ==
    LET min_hit_t == hmin_sse2(hit_t)
        min_mask == {l \in Lanes : FEq(hit_t[l], min_hit_t)}
    IN  IF FLt(min_hit_t, tmax) /\ min_mask # {}
        THEN LET hit_t_lane == cttz(min_mask)
                 hit_index_scalar == hit_index[hit_t_lane]
                 hit_t_scalar == hit_t[hit_t_lane]
                 point == point_at_parameter(r, hit_t_scalar)
                 normal ==
                     VScale(VSub(point, vec3(GetUnchecked(st.centre_x, hit_index_scalar, g),
                                             GetUnchecked(st.centre_y, hit_index_scalar, g),
                                             GetUnchecked(st.centre_z, hit_index_scalar, g))),
                            GetUnchecked(st.radius_inv, hit_index_scalar, g))
             IN  Some(hit_t_scalar, point, normal, hit_index_scalar)
        ELSE None

\* if min_hit_t < t_max { ... if min_mask != 0 {: the reduction of
\* hit_sse4_1 reports a hit.
SseReports(hit_t, tmax) ==
    /\ FLt(hmin_sse2(hit_t), tmax)
    /\ \E l \in Lanes : FEq(hit_t[l], hmin_sse2(hit_t))

\* The index hit_sse4_1 is about to read the arrays at, or 0 when it returns None.
SseHitIndex(hit_t, hit_index, tmax) ==
    LET min_hit_t == hmin_sse2(hit_t)
        min_mask == {l \in Lanes : FEq(hit_t[l], min_hit_t)}
    IN  IF FLt(min_hit_t, tmax) /\ min_mask # {} THEN hit_index[cttz(min_mask)] ELSE 0

\* The loop of hit_sse4_1 is over; it returns.
SseReturn ==
    /\ pc = "sse"
    /\ v_index[1] >= NumChunks(store) * NUM_LANES
    /\ LET i == SseHitIndex(v_hit_t, v_hit_index, t_max)
           inside == SseReports(v_hit_t, t_max) => i >= 0 /\ i < store.len
       IN  /\ \E g \in (IF inside THEN {0} ELSE Garbage) :
                  res_sse' = SseResult(store, ray, t_max, v_hit_t, v_hit_index, g)
           /\ v_oob' = (v_oob \/ ~inside)
    /\ pc' = "done"
    /\ UNCHANGED <<spheres, store, ray, t_min, t_max, s_index, s_hit_t, s_hit_index,
                   v_index, v_hit_t, v_hit_index, res_scalar>>
    /\ UNCHANGED <<conc_vars, bounce_vars, frame_vars>>

\* The caller is done with the two results; the store is ready for the next query.
Drop ==
    /\ pc = "done"
    /\ pc' = "idle"
    /\ ray' = NoRay
    /\ t_min' = 0
    /\ t_max' = 0
    /\ s_index' = 0
    /\ s_hit_t' = 0
    /\ s_hit_index' = 0
    /\ v_index' = Splat(0)
    /\ v_hit_t' = Splat(0)
    /\ v_hit_index' = Splat(0)
    /\ v_oob' = FALSE
    /\ res_scalar' = None
    /\ res_sse' = None
    /\ UNCHANGED <<spheres, store>>
    /\ UNCHANGED <<conc_vars, bounce_vars, frame_vars>>

Next == New \/ Hit \/ ScalarStep \/ ScalarReturn \/ SseStep \/ SseReturn \/ Drop

Spec == Init /\ [][Next]_vars

\* SpheresSoA::hit: the kernel's result, by the CPU feature detected.
hit(sse4_1) == IF sse4_1 THEN res_sse ELSE res_scalar

\* ------------------------------------------- whole calls of the kernels

\* let mut hit_t = t_max; let mut hit_index = self.len; index from 0.
ScalarEntry(st, tmax) == [index |-> 0, hit_t |-> tmax, hit_index |-> st.len]

\* hit_t = splat(t_max); hit_index = splat(-1); index = (0, 1, 2, 3).
SseEntry(tmax) ==
    [index |-> [l \in Lanes |-> l - 1], hit_t |-> Splat(tmax), hit_index |-> Splat(-1)]

\* The locals of hit_scalar after one more iteration.
ScalarNext(index, best) ==
    [index |-> index + 1, hit_t |-> best.hit_t, hit_index |-> best.hit_index]

\* The locals of hit_sse4_1 after one more iteration.
SseNext(index, best) ==
    [index |-> [l \in Lanes |-> index[l] + NUM_LANES],
     hit_t |-> best.hit_t, hit_index |-> best.hit_index]

\* The loop of hit_scalar from the locals loc to its end.
RECURSIVE ScalarLoop(_, _, _, _)
ScalarLoop(st, r, tmin, loc) ==
    IF loc.index >= ZipLen(st) THEN loc
    ELSE ScalarLoop(st, r, tmin,
                    ScalarNext(loc.index,
                               ScalarBody(st, r, tmin, loc.index, loc.hit_t, loc.hit_index)))

ScalarFinish(st, r, loc) == ScalarResult(st, r, loc.hit_t, loc.hit_index)

\* SpheresSoA::hit_scalar, the whole call.
hit_scalar(st, r, tmin, tmax) ==
    ScalarFinish(st, r, ScalarLoop(st, r, tmin, ScalarEntry(st, tmax)))

\* The loop of hit_sse4_1 from the locals loc to its end.
RECURSIVE SseLoop(_, _, _, _, _)
SseLoop(st, r, tmin, loc, g) ==
    IF loc.index[1] >= NumChunks(st) * NUM_LANES THEN loc
    ELSE SseLoop(st, r, tmin,
                 SseNext(loc.index,
                         SseBody(st, r, tmin, loc.index, loc.hit_t, loc.hit_index, g)), g)

SseFinish(st, r, tmax, loc, g) == SseResult(st, r, tmax, loc.hit_t, loc.hit_index, g)

\* SpheresSoA::hit_sse4_1, the whole call; a read outside the arrays yields g.
hit_sse4_1(st, r, tmin, tmax, g) ==
    SseFinish(st, r, tmax, SseLoop(st, r, tmin, SseEntry(tmax), g), g)

\* A call that returned value, and one that panicked.
Returned(value) == [panicked |-> FALSE, value |-> value]

Panicked == [panicked |-> TRUE, value |-> 0]

\* SpheresSoA::centre: assert!(index < self.len), then the unchecked reads.
centre(st, index) ==
    IF index < st.len
    THEN Returned(vec3(GetUnchecked(st.centre_x, index, 0),
                       GetUnchecked(st.centre_y, index, 0),
                       GetUnchecked(st.centre_z, index, 0)))
    ELSE Panicked

\* SpheresSoA::radius_sq: the bounds-checked read.
radius_sq(st, index) ==
    IF index < Len(st.radius_sq) THEN Returned(st.radius_sq[index + 1]) ELSE Panicked

\* ------------------------------- concurrent queries on one shared store

MaxConcSpheres == 2

ConcLists == UNION {[1..n -> SphereChoices] : n \in 0..MaxConcSpheres}

ConcRays ==
    {[origin |-> vec3(0, 0, 0), direction |-> vec3(0, 0, Lit(-1, 1))],
     [origin |-> vec3(0, 0, One), direction |-> vec3(0, 0, Lit(-1, 1))],
     [origin |-> vec3(0, 0, 0), direction |-> vec3(0, One, 0)]}

\* Every query's locals in one frame.
FrameShared(q) == "q1"

\* The stack frame that holds the locals of query q: its own.
Frame(q) == q

\* SpheresSoA::new(spheres), for the store the queries share.
ConcNew ==
    /\ pc = "start"
    /\ \E sphs \in ConcLists :
          /\ spheres' = sphs
          /\ store' = SoA(sphs)
    /\ pc' = "idle"
    /\ UNCHANGED <<ray, t_min, t_max, kernel_vars, res_scalar, res_sse>>
    /\ UNCHANGED <<conc_vars, bounce_vars, frame_vars>>

\* centre(index) is called and returns (or panics).
Centre(q) ==
    /\ pc = "idle"
    /\ q_pc[q] = "idle"
    /\ \E index \in 0..store.len :
          /\ q_args' = [q_args EXCEPT ![q] = [kernel |-> "centre", index |-> index]]
          /\ q_res' = [q_res EXCEPT ![q] = centre(store, index)]
    /\ q_pc' = [q_pc EXCEPT ![q] = "done"]
    /\ UNCHANGED <<spheres, store, seq_vars, q_local, bounce_vars, frame_vars>>

\* radius_sq(index) is called and returns (or panics).
RadiusSq(q) ==
    /\ pc = "idle"
    /\ q_pc[q] = "idle"
    /\ \E index \in 0..store.len :
          /\ q_args' = [q_args EXCEPT ![q] = [kernel |-> "radius_sq", index |-> index]]
          /\ q_res' = [q_res EXCEPT ![q] = radius_sq(store, index)]
    /\ q_pc' = [q_pc EXCEPT ![q] = "done"]
    /\ UNCHANGED <<spheres, store, seq_vars, q_local, bounce_vars, frame_vars>>

\* hit_scalar(ray, t_min, t_max) is entered by query q.
QueryScalar(q) ==
    /\ pc = "idle"
    /\ q_pc[q] = "idle"
    /\ \E r \in ConcRays, tmax \in TMaxs :
          /\ q_args' = [q_args EXCEPT ![q] =
                            [kernel |-> "scalar", ray |-> r, t_min |-> Lit(1, 1000),
                             t_max |-> tmax]]
          /\ q_local' = [q_local EXCEPT ![Frame(q)].s = ScalarEntry(store, tmax)]
    /\ q_pc' = [q_pc EXCEPT ![q] = "run"]
    /\ UNCHANGED <<spheres, store, seq_vars, q_res, bounce_vars, frame_vars>>

\* hit_sse4_1(ray, t_min, t_max) is entered by query q.
QuerySse(q) ==
    /\ pc = "idle"
    /\ q_pc[q] = "idle"
    /\ \E r \in ConcRays, tmax \in TMaxs :
          /\ q_args' = [q_args EXCEPT ![q] =
                            [kernel |-> "sse4_1", ray |-> r, t_min |-> Lit(1, 1000),
                             t_max |-> tmax]]
          /\ q_local' = [q_local EXCEPT ![Frame(q)].v = SseEntry(tmax)]
    /\ q_pc' = [q_pc EXCEPT ![q] = "run"]
    /\ UNCHANGED <<spheres, store, seq_vars, q_res, bounce_vars, frame_vars>>

\* One iteration of the loop of hit_scalar in query q.
QueryScalarStep(q) ==
    /\ q_pc[q] = "run"
    /\ q_args[q].kernel = "scalar"
    /\ q_local[Frame(q)].s.index < ZipLen(store)
    /\ q_local' =
          [q_local EXCEPT ![Frame(q)].s =
              ScalarNext(@.index,
                         ScalarBody(store, q_args[q].ray, q_args[q].t_min,
                                    @.index, @.hit_t, @.hit_index))]
    /\ UNCHANGED <<spheres, store, seq_vars, q_pc, q_args, q_res, bounce_vars, frame_vars>>

\* hit_scalar returns in query q.
QueryScalarReturn(q) ==
    /\ q_pc[q] = "run"
    /\ q_args[q].kernel = "scalar"
    /\ q_local[Frame(q)].s.index >= ZipLen(store)
    /\ q_res' = [q_res EXCEPT ![q] = ScalarFinish(store, q_args[q].ray, q_local[Frame(q)].s)]
    /\ q_pc' = [q_pc EXCEPT ![q] = "done"]
    /\ UNCHANGED <<spheres, store, seq_vars, q_args, q_local, bounce_vars, frame_vars>>

\* One iteration of the loop of hit_sse4_1 in query q.
QuerySseStep(q) ==
    /\ q_pc[q] = "run"
    /\ q_args[q].kernel = "sse4_1"
    /\ q_local[Frame(q)].v.index[1] < NumChunks(store) * NUM_LANES
    /\ \E g \in (IF q_local[Frame(q)].v.index[1] + NUM_LANES <= ZipLen(store)
                 THEN {0} ELSE Garbage) :
          q_local' =
              [q_local EXCEPT ![Frame(q)].v =
                  SseNext(@.index,
                          SseBody(store, q_args[q].ray, q_args[q].t_min,
                                  @.index, @.hit_t, @.hit_index, g))]
    /\ UNCHANGED <<spheres, store, seq_vars, q_pc, q_args, q_res, bounce_vars, frame_vars>>

\* hit_sse4_1 returns in query q.
QuerySseReturn(q) ==
    /\ q_pc[q] = "run"
    /\ q_args[q].kernel = "sse4_1"
    /\ q_local[Frame(q)].v.index[1] >= NumChunks(store) * NUM_LANES
    /\ \E g \in (IF SseReports(q_local[Frame(q)].v.hit_t, q_args[q].t_max)
                       => SseHitIndex(q_local[Frame(q)].v.hit_t, q_local[Frame(q)].v.hit_index,
                                      q_args[q].t_max) \in 0..(store.len - 1)
                 THEN {0} ELSE Garbage) :
          q_res' = [q_res EXCEPT ![q] =
                       SseFinish(store, q_args[q].ray, q_args[q].t_max,
                                 q_local[Frame(q)].v, g)]
    /\ q_pc' = [q_pc EXCEPT ![q] = "done"]
    /\ UNCHANGED <<spheres, store, seq_vars, q_args, q_local, bounce_vars, frame_vars>>

NextConc ==
    \/ ConcNew
    \/ \E q \in Queries : Centre(q)
    \/ \E q \in Queries : RadiusSq(q)
    \/ \E q \in Queries : QueryScalar(q)
    \/ \E q \in Queries : QuerySse(q)
    \/ \E q \in Queries : QueryScalarStep(q)
    \/ \E q \in Queries : QueryScalarReturn(q)
    \/ \E q \in Queries : QuerySseStep(q)
    \/ \E q \in Queries : QuerySseReturn(q)

SpecConc == Init /\ [][NextConc]_vars

\* ------------------------------------------------ Scene::ray_to_colour

\* if depth >= 50
MaxBounceDepth == 50

\* DepthCutoff that lets depth 50 scatter once more.
DepthCutoffLate(depth) == depth > MaxBounceDepth

DepthCutoff(depth) == depth >= MaxBounceDepth

\* ray_to_colour(ray, 0, rng) is called for a camera ray.
Trace ==
    /\ rt_pc \in {"idle", "returned"}
    /\ rt_pc' = "entry"
    /\ rt_depth' = 0
    /\ rt_frames' = 1
    /\ rt_calls' = 1
    /\ UNCHANGED <<spheres, store, seq_vars, conc_vars, frame_vars>>

\* self.hit(ray_in, 0.001, f32::MAX) is None: the sky colour is returned.
Miss ==
    /\ rt_pc = "entry"
    /\ rt_pc' = "return"
    /\ UNCHANGED <<rt_depth, rt_frames, rt_calls>>
    /\ UNCHANGED <<spheres, store, seq_vars, conc_vars, frame_vars>>

\* self.hit(ray_in, 0.001, f32::MAX) is Some(ray_hit).
HitSurface ==
    /\ rt_pc = "entry"
    /\ rt_pc' = "hit"
    /\ UNCHANGED <<rt_depth, rt_frames, rt_calls>>
    /\ UNCHANGED <<spheres, store, seq_vars, conc_vars, frame_vars>>

\* depth >= 50: Vec3::zero() is returned.
Cutoff ==
    /\ rt_pc = "hit"
    /\ DepthCutoff(rt_depth)
    /\ rt_pc' = "return"
    /\ UNCHANGED <<rt_depth, rt_frames, rt_calls>>
    /\ UNCHANGED <<spheres, store, seq_vars, conc_vars, frame_vars>>

\* The material does not scatter: Vec3::zero() is returned.
Absorb ==
    /\ rt_pc = "hit"
    /\ ~DepthCutoff(rt_depth)
    /\ rt_pc' = "return"
    /\ UNCHANGED <<rt_depth, rt_frames, rt_calls>>
    /\ UNCHANGED <<spheres, store, seq_vars, conc_vars, frame_vars>>

\* The material scatters: self.ray_to_colour(&scattered, depth + 1, rng).
Scatter ==
    /\ rt_pc = "hit"
    /\ ~DepthCutoff(rt_depth)
    /\ rt_pc' = "entry"
    /\ rt_depth' = rt_depth + 1
    /\ rt_frames' = rt_frames + 1
    /\ rt_calls' = rt_calls + 1
    /\ UNCHANGED <<spheres, store, seq_vars, conc_vars, frame_vars>>

\* The innermost invocation returns: to its caller, which multiplies by
\* the attenuation and returns in turn, or out of the top-level call.
Return ==
    /\ rt_pc = "return"
    /\ rt_frames' = rt_frames - 1
    /\ IF rt_frames = 1
       THEN rt_pc' = "returned" /\ rt_depth' = rt_depth
       ELSE rt_pc' = "return" /\ rt_depth' = rt_depth - 1
    /\ UNCHANGED rt_calls
    /\ UNCHANGED <<spheres, store, seq_vars, conc_vars, frame_vars>>

\* The steps of a call of ray_to_colour in progress.
RunBounce == Miss \/ HitSurface \/ Cutoff \/ Absorb \/ Scatter \/ Return

NextBounce == Trace \/ Miss \/ HitSurface \/ Cutoff \/ Absorb \/ Scatter \/ Return

\* ray_to_colour runs synchronously on its thread: a call in progress
\* takes its next step.
SpecBounce == Init /\ [][NextBounce]_vars /\ WF_vars(RunBounce)

\* ------------------------------------- main and its render worker

\* The frames the worker renders before the model stops it.
MaxFrames == 12

\* Option<Vec<...>>: Some(buffer) and None.
SomeBuffer == <<Buffer>>

NoBuffer == <<>>

\* OnTimeout handing main a buffer.
OnTimeoutSome == SomeBuffer

\* Err(RecvTimeoutError::Timeout) => None
OnTimeout == NoBuffer

\* poll_events saw Closed or a released Escape: main leaves its loop.
MainQuit ==
    /\ m_pc = "poll"
    /\ quit' = TRUE
    /\ m_pc' = "exited"
    /\ UNCHANGED <<m_rgb_buffer, w_pc, w_rgb_buffer, worker_recv, main_recv,
                   frame_num, sent_back>>
    /\ UNCHANGED <<spheres, store, seq_vars, conc_vars, bounce_vars>>

\* poll_events saw no reason to quit.
MainContinue ==
    /\ m_pc = "poll"
    /\ quit' = FALSE
    /\ m_pc' = "send"
    /\ UNCHANGED <<m_rgb_buffer, w_pc, w_rgb_buffer, worker_recv, main_recv,
                   frame_num, sent_back>>
    /\ UNCHANGED <<spheres, store, seq_vars, conc_vars, bounce_vars>>

\* if let Some(rgb_buffer) = rgb_buffer { main_send.send(Some(rgb_buffer)) }:
\* the buffer moves out of main's variable into the channel.
MainSend ==
    /\ m_pc = "send"
    /\ IF m_rgb_buffer # NoBuffer
       THEN /\ worker_recv' = Append(worker_recv, m_rgb_buffer)
            /\ m_rgb_buffer' = NoBuffer
       ELSE UNCHANGED <<worker_recv, m_rgb_buffer>>
    /\ m_pc' = "recv"
    /\ UNCHANGED <<w_pc, w_rgb_buffer, main_recv, frame_num, sent_back, quit>>
    /\ UNCHANGED <<spheres, store, seq_vars, conc_vars, bounce_vars>>

\* main_recv.recv_timeout(100ms) is Ok(rgb_buffer): the buffer is copied to
\* the texture, drawn, and kept as Some(rgb_buffer).
MainRecvOk ==
    /\ m_pc = "recv"
    /\ main_recv # <<>>
    /\ m_rgb_buffer' = <<Head(main_recv)>>
    /\ main_recv' = Tail(main_recv)
    /\ m_pc' = "poll"
    /\ UNCHANGED <<w_pc, w_rgb_buffer, worker_recv, frame_num, sent_back, quit>>
    /\ UNCHANGED <<spheres, store, seq_vars, conc_vars, bounce_vars>>

\* main_recv.recv_timeout(100ms) is Err(Timeout): nothing arrived in time.
MainRecvTimeout ==
    /\ m_pc = "recv"
    /\ main_recv = <<>>
    /\ m_rgb_buffer' = OnTimeout
    /\ m_pc' = "poll"
    /\ UNCHANGED <<w_pc, w_rgb_buffer, worker_recv, main_recv, frame_num, sent_back, quit>>
    /\ UNCHANGED <<spheres, store, seq_vars, conc_vars, bounce_vars>>

\* worker_recv.recv() returns a message: Some(buffer) is taken for
\* rendering, None ends the worker's loop.
WorkerRecv ==
    /\ w_pc = "recv"
    /\ worker_recv # <<>>
    /\ worker_recv' = Tail(worker_recv)
    /\ IF Head(worker_recv) # NoBuffer
       THEN w_rgb_buffer' = Head(worker_recv) /\ w_pc' = "render"
       ELSE w_rgb_buffer' = w_rgb_buffer /\ w_pc' = "exited"
    /\ UNCHANGED <<m_pc, m_rgb_buffer, main_recv, frame_num, sent_back, quit>>
    /\ UNCHANGED <<spheres, store, seq_vars, conc_vars, bounce_vars>>

\* scene.update(&params, &camera, frame_num, &mut rgb_buffer); frame_num += 1
\* (and the statistics are printed).
WorkerRender ==
    /\ w_pc = "render"
    /\ frame_num < MaxFrames
    /\ frame_num' = frame_num + 1
    /\ w_pc' = "send"
    /\ UNCHANGED <<m_pc, m_rgb_buffer, w_rgb_buffer, worker_recv, main_recv, sent_back, quit>>
    /\ UNCHANGED <<spheres, store, seq_vars, conc_vars, bounce_vars>>

\* worker_send.send(rgb_buffer)
WorkerSend ==
    /\ w_pc = "send"
    /\ main_recv' = main_recv \o w_rgb_buffer
    /\ w_rgb_buffer' = NoBuffer
    /\ sent_back' = sent_back + 1
    /\ w_pc' = "recv"
    /\ UNCHANGED <<m_pc, m_rgb_buffer, worker_recv, frame_num, quit>>
    /\ UNCHANGED <<spheres, store, seq_vars, conc_vars, bounce_vars>>

NextFrames ==
    \/ MainQuit \/ MainContinue \/ MainSend \/ MainRecvOk \/ MainRecvTimeout
    \/ WorkerRecv \/ WorkerRender \/ WorkerSend

SpecFrames == Init /\ [][NextFrames]_vars

\* ------------------------------------------------------------- claims

Done == pc = "done"

\* The candidate t each kernel computes for the sphere at index i, or NaN
\* when the discriminant is not positive.
ScalarCandidate(i) ==
    LET m == SphereMath(store, i, ray)
    IN  IF FGt(m.discriminant, 0) THEN ScalarRoot(m.nb, m.discriminant, t_min) ELSE NaN

SseCandidate(i) ==
    LET m == SseLaneMath(store.centre_x[i + 1], store.centre_y[i + 1],
                         store.centre_z[i + 1], store.radius_sq[i + 1], ray)
    IN  IF FGt(m.discr, 0) THEN SseRoot(m.nb, m.discr, t_min) ELSE NaN

InWindow(t) == FGt(t, t_min) /\ FLt(t, t_max)

Indices == 0..(store.len - 1)

\* C1: the two kernels return the same verdict and, on a hit, the same t,
\* point, normal and sphere index.
C1_KernelEquivalence == Done => res_scalar = res_sse

\* C2: no kernel reports a padding row: the index of a returned hit is below
\* the number of spheres the store was built from.
C2_NoFalseHitsFromPadding ==
    Done => \A sse4_1 \in BOOLEAN :
                hit(sse4_1).hit => hit(sse4_1).index < store.num_spheres

C2_Witness ==
    /\ Done
    /\ store.num_spheres % chunk_size # 0
    /\ res_scalar.hit
    /\ res_sse.hit
    /\ ray.direction = vec3(0, 0, Lit(-2, 1))

\* C3: a returned hit has the least candidate t in (t_min, t_max) over all
\* rows of the store, and none is returned exactly when no row has one.
C3_NearestWins ==
    Done =>
        LET qs == {ScalarCandidate(i) : i \in {j \in Indices : InWindow(ScalarCandidate(j))}}
            qv == {SseCandidate(i) : i \in {j \in Indices : InWindow(SseCandidate(j))}}
        IN  /\ res_scalar.hit <=> qs # {}
            /\ res_scalar.hit => res_scalar.t \in qs /\ \A t \in qs : res_scalar.t <= t
            /\ res_sse.hit <=> qv # {}
            /\ res_sse.hit => res_sse.t \in qv /\ \A t \in qv : res_sse.t <= t

C3_Witness ==
    /\ Done
    /\ res_scalar.hit
    /\ res_sse.hit
    /\ \E i, j \in Indices :
          /\ i < j
          /\ InWindow(ScalarCandidate(i)) /\ InWindow(ScalarCandidate(j))
          /\ InWindow(SseCandidate(i)) /\ InWindow(SseCandidate(j))
          /\ ScalarCandidate(j) < ScalarCandidate(i)
          /\ SseCandidate(j) < SseCandidate(i)

\* C4: after SpheresSoA::new on n spheres, len is the least multiple of 4
\* that is >= n, num_spheres is n, the five arrays have len entries, entry i
\* < n holds the centre, radius * radius and 1 / radius of input sphere i,
\* and the entries from n on have radius_sq = 0 and radius_inv = 0.
C4_NewLayout ==
    pc # "start" =>
        LET n == Len(spheres)
        IN  /\ store.num_spheres = n
            /\ store.len % 4 = 0 /\ store.len >= n /\ store.len < n + 4
            /\ Len(store.centre_x) = store.len
            /\ Len(store.centre_y) = store.len
            /\ Len(store.centre_z) = store.len
            /\ Len(store.radius_sq) = store.len
            /\ Len(store.radius_inv) = store.len
            /\ \A i \in 1..n :
                  /\ store.centre_x[i] = spheres[i].centre[1]
                  /\ store.centre_y[i] = spheres[i].centre[2]
                  /\ store.centre_z[i] = spheres[i].centre[3]
                  /\ store.radius_sq[i] = FMul(spheres[i].radius, spheres[i].radius)
                  /\ store.radius_inv[i] = FDiv(One, spheres[i].radius)
            /\ \A i \in (n + 1)..store.len :
                  store.radius_sq[i] = 0 /\ store.radius_inv[i] = 0

C4_Witness ==
    /\ pc = "idle"
    /\ store.num_spheres = 5
    /\ store.len = 8
    /\ store.radius_sq[2] = One
    /\ store.radius_inv[1] = Lit(2, 1)

\* C5: a returned hit has t_min < t < t_max, strictly; a query with
\* t_min >= t_max returns none.
C5_AcceptanceWindow ==
    Done => \A sse4_1 \in BOOLEAN :
                /\ hit(sse4_1).hit => FGt(hit(sse4_1).t, t_min) /\ FLt(hit(sse4_1).t, t_max)
                /\ t_min >= t_max => ~hit(sse4_1).hit

C5_Witness ==
    /\ Done
    /\ res_scalar.hit
    /\ res_sse.hit
    /\ t_max = Lit(1, 2)

\* The squared distance of two points with finite coordinates, exactly
\* (in squares of the unit).
DistSq(p, q) ==
    (p[1] - q[1]) * (p[1] - q[1]) + (p[2] - q[2]) * (p[2] - q[2])
        + (p[3] - q[3]) * (p[3] - q[3])

\* C6: a hit returned against a sphere of radius r > 0 has its point on the
\* sphere, |point - centre| = r, and a normal of length 1, whatever the
\* length of the ray's direction.
C6_SurfaceProperty ==
    Done => \A sse4_1 \in BOOLEAN :
                LET h == hit(sse4_1)
                IN  h.hit /\ h.index < Len(spheres) /\ spheres[h.index + 1].radius > 0
                    => /\ DistSq(h.point, spheres[h.index + 1].centre)
                            = spheres[h.index + 1].radius * spheres[h.index + 1].radius
                       /\ DistSq(h.normal, Zero3) = One * One

\* C7: when several spheres attain the least qualifying t, hit_sse4_1
\* returns the one of lowest index.
C7_VectorTieBreak ==
    Done /\ res_sse.hit =>
        \A i \in Indices : FEq(SseCandidate(i), res_sse.t) => res_sse.index <= i

\* C8: no constructed store holds a real row with radius_sq = 0, a negative
\* radius_inv or an infinite radius_inv: a list with a radius <= 0 is rejected.
C8_InvalidRadiusRejected ==
    pc # "start" =>
        /\ \A i \in 1..Len(spheres) : spheres[i].radius > 0
        /\ \A i \in 1..store.num_spheres :
              store.radius_sq[i] # 0 /\ store.radius_inv[i] > 0 /\ IsFin(store.radius_inv[i])

\* C9: a ray whose direction is the zero vector hits nothing, for any
\* t_min < t_max.
C9_DegenerateRay ==
    Done /\ ray.direction = Zero3 /\ FLt(t_min, t_max) =>
        \A sse4_1 \in BOOLEAN : ~hit(sse4_1).hit

\* The query of the concrete scenario: the store of the one sphere centre
\* (0,0,-1), radius 0.5; ray origin (0,0,0), direction (0,0,-1); t_min =
\* 0.001, t_max = f32::MAX.
Scenario ==
    /\ Done
    /\ spheres = <<SphereA>>
    /\ ray = [origin |-> vec3(0, 0, 0), direction |-> vec3(0, 0, Lit(-1, 1))]
    /\ t_min = Lit(1, 1000)
    /\ t_max = F32_MAX

\* C10 as stated: the scenario returns t = 0.5, point (0,0,-1.5), normal
\* (0,0,1) and index 0.
C10_ScenarioAsStated ==
    Scenario => \A sse4_1 \in BOOLEAN :
        hit(sse4_1) = Some(Lit(1, 2), vec3(0, 0, Lit(-3, 2)), vec3(0, 0, One), 0)

\* C10, amended: the scenario returns t = 0.5, point (0,0,-0.5), normal
\* (0,0,1) and index 0.
C10_Scenario ==
    Scenario => \A sse4_1 \in BOOLEAN :
        hit(sse4_1) = Some(Lit(1, 2), vec3(0, 0, Lit(-1, 2)), vec3(0, 0, One), 0)

C10_Witness == Scenario /\ res_scalar.hit /\ res_sse.hit

\* What the call of query arguments a returns when it runs alone on st: the
\* set of its possible results.
Alone(st, a) ==
    CASE a.kernel = "scalar" -> {hit_scalar(st, a.ray, a.t_min, a.t_max)}
      [] a.kernel = "sse4_1" -> {hit_sse4_1(st, a.ray, a.t_min, a.t_max, g) : g \in Garbage}
      [] a.kernel = "centre" -> {centre(st, a.index)}
      [] a.kernel = "radius_sq" -> {radius_sq(st, a.index)}

\* C11: once constructed the store stays what SpheresSoA::new built from
\* the input list, whatever queries run on it, and every query that has
\* returned, however it was interleaved with the others, returned the one
\* result its call has when run alone on (store, ray, t_min, t_max).
C11_ImmutabilityAndPurity ==
    /\ pc # "start" => store = SoA(spheres)
    /\ \A q \in Queries :
          q_pc[q] = "done" => Alone(store, q_args[q]) = {q_res[q]}

\* Both queries returned a hit, on different arguments, one from each kernel.
C11_Witness ==
    /\ q_pc["q1"] = "done" /\ q_pc["q2"] = "done"
    /\ q_args["q1"].kernel = "scalar" /\ q_args["q2"].kernel = "sse4_1"
    /\ q_args["q1"].ray # q_args["q2"].ray
    /\ q_res["q1"].hit /\ q_res["q2"].hit
    /\ q_res["q1"] # q_res["q2"]

InQuery == pc \in {"scalar", "sse", "done"}

\* The discriminant hit_sse4_1 computes for lane l of the chunk it is at.
SseLaneDiscr(l) ==
    SseLaneMath(Loadu(store.centre_x, v_index[1], l, 0),
                Loadu(store.centre_y, v_index[1], l, 0),
                Loadu(store.centre_z, v_index[1], l, 0),
                Loadu(store.radius_sq, v_index[1], l, 0), ray).discr

\* An iteration of hit_scalar on a sphere whose discriminant is not
\* positive leaves hit_t and hit_index as they were.
ScalarKeepsOnNoRoot ==
    (/\ pc = "scalar"
     /\ s_index' = s_index + 1
     /\ ~FGt(SphereMath(store, s_index, ray).discriminant, 0))
        => UNCHANGED <<s_hit_t, s_hit_index>>

\* An iteration of hit_sse4_1 leaves hit_t and hit_index as they were in
\* every lane whose discriminant is not positive.
SseKeepsOnNoRoot ==
    (pc = "sse" /\ v_index'[1] = v_index[1] + NUM_LANES)
        => \A l \in Lanes :
              ~FGt(SseLaneDiscr(l), 0)
                  => v_hit_t'[l] = v_hit_t[l] /\ v_hit_index'[l] = v_hit_index[l]

\* The sphere a kernel returned has a positive discriminant.
ReturnedHasRoots ==
    Done => /\ res_scalar.hit
                => FGt(SphereMath(store, res_scalar.index, ray).discriminant, 0)
            /\ res_sse.hit /\ res_sse.index \in Indices
                => FGt(SphereMath(store, res_sse.index, ray).discriminant, 0)

\* C12: in both kernels a sphere whose discriminant is 0 or negative (or
\* NaN) never changes the running best t or index, and is never the
\* returned hit.
C12_TangentBoundary ==
    /\ [][ScalarKeepsOnNoRoot /\ SseKeepsOnNoRoot]_vars
    /\ []ReturnedHasRoots

\* Both kernels have returned none where the store holds a row whose
\* discriminant is exactly 0 and whose double root lies in the window.
C12_Witness ==
    /\ Done
    /\ ~res_scalar.hit
    /\ ~res_sse.hit
    /\ \E i \in Indices :
          /\ SphereMath(store, i, ray).discriminant = 0
          /\ InWindow(SphereMath(store, i, ray).nb)

\* An iteration of hit_scalar never raises hit_t, and changes hit_index
\* only when it lowers hit_t strictly.
ScalarRunningMinimum ==
    (pc = "scalar" /\ s_index' = s_index + 1)
        => /\ s_hit_t' <= s_hit_t
           /\ s_hit_index' # s_hit_index => s_hit_t' < s_hit_t /\ s_hit_index' = s_index

\* hit_scalar returned the lowest index among the spheres whose candidate
\* is the t it returned.
ScalarFirstIndexWins ==
    Done /\ res_scalar.hit =>
        \A i \in Indices : FEq(ScalarCandidate(i), res_scalar.t) => res_scalar.index <= i

\* C13: in hit_scalar the running best t never increases over the scan and
\* is replaced only by a strictly smaller candidate, so among several
\* spheres with the least qualifying t the lowest index is returned.
C13_ScalarFirstIndexWins ==
    /\ [][ScalarRunningMinimum]_vars
    /\ []ScalarFirstIndexWins

\* hit_scalar returned the first of two spheres that share the least t.
C13_Witness ==
    /\ Done
    /\ res_scalar.hit
    /\ \E i, j \in Indices :
          /\ i < j
          /\ res_scalar.index = i
          /\ FEq(ScalarCandidate(i), res_scalar.t)
          /\ FEq(ScalarCandidate(j), res_scalar.t)

\* C14: for every sphere with a positive discriminant the two kernels pick
\* the same candidate root: nb - root, or nb + root when nb - root < t_min,
\* the boundary nb - root = t_min included.
C14_RootSelection ==
    InQuery => \A i \in Indices : ScalarCandidate(i) = SseCandidate(i)

\* C15: in hit_sse4_1 every 4-wide load reads 4 elements inside each of the
\* four arrays; a lane's best index is -1 exactly when its best t is still
\* t_max; when the reduction reports a hit the extracted index is in
\* [0, len); and no unchecked read has fallen outside the arrays.
C15_VectorIndexSafety ==
    /\ ~v_oob
    /\ pc = "sse" /\ v_index[1] < NumChunks(store) * NUM_LANES
          => \A arr \in {store.centre_x, store.centre_y, store.centre_z, store.radius_sq} :
                v_index[1] + NUM_LANES <= Len(arr)
    /\ InQuery
          => /\ \A l \in Lanes : v_hit_index[l] = -1 <=> v_hit_t[l] = t_max
             /\ SseReports(v_hit_t, t_max)
                   => SseHitIndex(v_hit_t, v_hit_index, t_max) \in Indices
    /\ Done /\ res_sse.hit => res_sse.index \in Indices

\* hit_sse4_1 returned a sphere of the second chunk of a store padded from
\* 5 to 8 rows, with a lane that never took a hit.
C15_Witness ==
    /\ Done
    /\ res_sse.hit
    /\ store.num_spheres = 5
    /\ store.len = 8
    /\ res_sse.index = 4
    /\ \E l \in Lanes : v_hit_index[l] = -1

\* A call of ray_to_colour is in progress.
Tracing == rt_pc \in {"entry", "hit", "return"}

\* No invocation has a depth above 50; a top-level call has at most 51
\* invocations nested and makes at most 51.
BouncesBounded ==
    /\ rt_depth <= 50
    /\ rt_frames <= 51
    /\ rt_calls <= 51
    /\ Tracing => rt_frames = rt_depth + 1

\* A nested call is made from a depth below 50 with that depth plus 1.
BounceDeepensByOne ==
    rt_frames' = rt_frames + 1 /\ rt_frames > 0
        => rt_depth < 50 /\ rt_depth' = rt_depth + 1 /\ rt_calls' = rt_calls + 1

\* C16: ray_to_colour started at depth 0 returns, whatever the scene hits
\* and the materials scatter; each nested call has the depth of its caller
\* plus 1, none has a depth above 50, and one top-level call makes at most
\* 51 invocations.
C16_BoundedBounces ==
    /\ []BouncesBounded
    /\ [][BounceDeepensByOne]_vars
    /\ (Tracing ~> rt_pc = "returned")

\* A top-level call that scattered at every depth has returned after 51
\* invocations.
C16_Witness == rt_pc = "returned" /\ rt_calls = 51

\* The buffers held in main's variable, in flight to the worker, held by
\* the worker, and in flight back to main.
BuffersHeld ==
    Len(m_rgb_buffer) + Len(SelectSeq(worker_recv, LAMBDA msg : msg # NoBuffer))
        + Len(w_rgb_buffer) + Len(main_recv)

\* The buffer is in exactly one place, each channel carries at most one
\* buffer, and the worker holds a buffer exactly while it renders or is
\* about to send one frame.
SingleBuffer ==
    /\ BuffersHeld = 1
    /\ Len(worker_recv) <= 1
    /\ Len(main_recv) <= 1
    /\ w_rgb_buffer = SomeBuffer <=> w_pc \in {"render", "send"}

\* main puts a message on its channel only by moving out the buffer it holds.
MainSendsWhatItHolds ==
    Len(worker_recv') > Len(worker_recv)
        => m_rgb_buffer = SomeBuffer /\ m_rgb_buffer' = NoBuffer
              /\ worker_recv' = Append(worker_recv, SomeBuffer)

====
